---- MODULE Spec2Model ----
(***************************************************************************)
(* SecPipe: the security review pipeline (SecurityPipelineWorkflow.run),   *)
(* the agent's persisted state (reviews, findings, remediations in the     *)
(* Durable Object's SQL storage), the agent's internal endpoints           *)
(* (/update-status, /store-findings, /store-remediations) and the MCP      *)
(* tools that change state (submit_review, approve_findings).              *)
(***************************************************************************)
EXTENDS Integers, Sequences, FiniteSets, TLC

(***************************************************************************)
(* Values                                                                  *)
(***************************************************************************)
Null == "NULL"
Undefined == "undefined"
\* SQL NULL in a column that holds an id
NullId == <<>>

\* the record of a step: whether its result is recorded, and the result
NoResult == [ done |-> FALSE, value |-> <<>> ]
Recorded(v) == [ done |-> TRUE, value |-> v ]

\* retries: { limit: 2, ... } of every inference stage
RetryLimit == 2

\* Bound of the model: events buffered for one workflow instance
MaxEvents == 1

\* Bound of the model: approve_findings calls of one review that are between
\* their UPDATEs and their sendEvent at a time
MaxCalls == 1

\* Bound of the model: restarts of an instance that abandon a callback whose
\* request the object has handled
MaxReplays == 1

\* generateId(prefix): `${prefix}-${timestamp}-${random}`, kept as the parts
\* that the dashes separate; prefix is given by its parts
generateId(prefix, timestamp, random) ==
    IF prefix # <<>> THEN prefix \o <<timestamp, random>> ELSE <<timestamp, random>>

\* reviewId.split("-")[0]
SplitDashFirst(id) == id[1]

\* the ids submit_review can draw
ReviewIdPool == { generateId(<<"rev">>, "t1", "x1") }

Users == { "u1" }

\* the object the worker routes /mcp requests to (the agent that runs the tools)
AgentDoName == "secpipe-shared"

\* the users whose requests reach the /mcp endpoint
Callers == Users \cup { "u2" }

\* handleMcpRequest: the object that serves a user's requests, one for all users
AgentDoOf(user) == AgentDoName

WorkflowDoNameOfAgent(reviewId) == AgentDoName

\* the object the workflow addresses its callbacks to
WorkflowDoName(reviewId) ==
    IF SplitDashFirst(reviewId) # "" THEN SplitDashFirst(reviewId) ELSE "default"

DoNames == { AgentDoName } \cup { WorkflowDoName(r) : r \in ReviewIdPool }

RECURSIVE GCD(_, _)
GCD(a, b) == IF b = 0 THEN a ELSE GCD(b, a % b)

\* a non-negative number n / d (the value of a REAL column), in lowest terms
Ratio(n, d) == [ num |-> n \div GCD(n, d), den |-> d \div GCD(n, d) ]

(***************************************************************************)
(* Sequences                                                               *)
(***************************************************************************)
Includes(seq, x) == \E i \in 1..Len(seq) : seq[i] = x

RECURSIVE Filter(_, _)
\* Array.prototype.filter with the predicate given as the set of kept values
Filter(seq, keep) ==
    IF seq = <<>> THEN <<>>
    ELSE IF Head(seq) \in keep
         THEN <<Head(seq)>> \o Filter(Tail(seq), keep)
         ELSE Filter(Tail(seq), keep)

Range(seq) == { seq[i] : i \in 1..Len(seq) }

(***************************************************************************)
(* The store of one Durable Object: three tables, each a set of rows with  *)
(* id as primary key.                                                      *)
(***************************************************************************)
EmptyStore == [ reviews |-> {}, findings |-> {}, remediations |-> {} ]

\* INSERT INTO reviews (...) VALUES (?, ?, ?, ?, 'pending', ?, ?)
NewReviewRow(reviewId, userId) ==
    [ id |-> reviewId, user_id |-> userId, status |-> "pending",
      workflow_instance_id |-> NullId,
      total_findings_raw |-> 0, total_findings_filtered |-> 0,
      noise_reduction_percent |-> Ratio(0, 1),
      current_stage |-> Null, error |-> Null ]

\* JSON.stringify of an array, as the text's tokens
JsonStringify(array) == <<"[">> \o array \o <<"]">>

\* JSON.parse of the text of an array
JsonParse(text) == SubSeq(text, 2, Len(text) - 1)

\* falsePositiveReason || null
ReasonOrNull(reason) == IF reason = Undefined \/ reason = "" THEN Null ELSE reason

\* one row of INSERT OR REPLACE INTO findings: approved and approved_at are not
\* in the column list, so they take their defaults
FindingRow(reviewId, finding) ==
    [ id |-> finding.id, review_id |-> reviewId,
      category |-> finding.category, severity |-> finding.severity,
      title |-> finding.title,
      location_start_line |-> finding.location.startLine,
      is_reachable |-> IF finding.isReachable THEN 1 ELSE 0,
      data_flow_path |-> JsonStringify(finding.reachabilityAnalysis.dataFlowPath),
      false_positive_reason |->
          ReasonOrNull(finding.reachabilityAnalysis.falsePositiveReason),
      approved |-> 0, approved_at |-> Null ]

\* one row of INSERT OR REPLACE INTO remediations
RemediationRow(reviewId, rem) ==
    [ id |-> rem.id, finding_id |-> rem.findingId, review_id |-> reviewId ]

\* INSERT OR REPLACE: the row with the same primary key is removed first
InsertOrReplace(table, row) == { t \in table : t.id # row.id } \cup { row }

RECURSIVE InsertAllFindings(_, _, _)
InsertAllFindings(table, reviewId, findings) ==
    IF findings = <<>> THEN table
    ELSE InsertAllFindings(InsertOrReplace(table, FindingRow(reviewId, Head(findings))),
                           reviewId, Tail(findings))

RECURSIVE InsertAllRemediations(_, _, _)
InsertAllRemediations(table, reviewId, rems) ==
    IF rems = <<>> THEN table
    ELSE InsertAllRemediations(InsertOrReplace(table, RemediationRow(reviewId, Head(rems))),
                               reviewId, Tail(rems))

StageOrNullAsGiven(currentStage) == currentStage

\* currentStage || null
StageOrNull(currentStage) ==
    IF currentStage = Undefined \/ currentStage = "" THEN Null ELSE currentStage

\* /update-status: UPDATE reviews SET status = ?, current_stage = ? WHERE id = ?
UpdateStatusHandler(store, reviewId, status, currentStage) ==
    [ store EXCEPT !.reviews =
        { IF row.id = reviewId
          THEN [ row EXCEPT !.status = status,
                            !.current_stage = StageOrNull(currentStage) ]
          ELSE row : row \in store.reviews } ]

\* findings.filter((f) => f.isReachable).length
ReachableCount(findings) == Len(Filter(findings, { f \in Range(findings) : f.isReachable }))

StoreFindingsHandlerAdding(store, reviewId, findings, synthesis) ==
    [ store EXCEPT
        !.findings = InsertAllFindings(store.findings, reviewId, findings),
        !.reviews =
          { IF row.id = reviewId
            THEN [ row EXCEPT !.total_findings_raw = @ + synthesis.totalRaw,
                              !.total_findings_filtered = @ + ReachableCount(findings),
                              !.noise_reduction_percent = synthesis.noiseReductionPercent ]
            ELSE row : row \in store.reviews } ]

\* /store-findings: upsert every finding, then overwrite the review's statistics
StoreFindingsHandler(store, reviewId, findings, synthesis) ==
    [ store EXCEPT
        !.findings = InsertAllFindings(store.findings, reviewId, findings),
        !.reviews =
          { IF row.id = reviewId
            THEN [ row EXCEPT !.total_findings_raw = synthesis.totalRaw,
                              !.total_findings_filtered = ReachableCount(findings),
                              !.noise_reduction_percent = synthesis.noiseReductionPercent ]
            ELSE row : row \in store.reviews } ]

StoreRemediationsHandlerAppending(store, reviewId, remediations) ==
    [ store EXCEPT
        !.remediations = @ \cup
            { [ RemediationRow(reviewId, remediations[i])
                  EXCEPT !.id = << @, Cardinality(store.remediations) + i >> ]
              : i \in 1..Len(remediations) } ]

\* /store-remediations: upsert every remediation
StoreRemediationsHandler(store, reviewId, remediations) ==
    [ store EXCEPT
        !.remediations = InsertAllRemediations(store.remediations, reviewId, remediations) ]

(***************************************************************************)
(* The workflow program: the steps of SecurityPipelineWorkflow.run         *)
(***************************************************************************)
AnalysisSteps ==
    { "dependency-analysis", "auth-analysis", "injection-analysis", "secrets-analysis" }

\* the step.do calls given a retry policy: the inference stages
StageSteps ==
    { "triage", "reachability-filter", "synthesis", "remediation" } \cup AnalysisSteps

\* the step.do calls that call back into the Durable Object
CallbackSteps ==
    { "update-status-analyzing", "update-status-filtering", "store-findings",
      "update-status-awaiting-approval", "update-status-completed-no-remediation",
      "update-status-remediating", "store-remediations", "update-status-completed" }

\* the analysis stages under src/ that parse the response of their inference call
ParsingSteps == { "dependency-analysis", "injection-analysis", "secrets-analysis" }

StepNames == StageSteps \cup CallbackSteps \cup { "approval" }

CheckpointedButSynthesis == StepNames \ { "synthesis" }

CheckpointedButApproval == StepNames \ { "approval" }

\* the operations of run() that are wrapped in step.do or step.waitForEvent:
\* their result is recorded and returned from the record when run() is replayed
Checkpointed == StepNames

ApprovalDeclinedLengthOnly(approval) == Len(approval.findingIds) = 0

\* if (!approval.approved || approval.findingIds.length === 0)
ApprovalDeclined(approval) == ~approval.approved \/ Len(approval.findingIds) = 0

\* step.do / waitForEvent returns without running its callback
Settled(res, s) == s \in Checkpointed /\ res[s].done

FanInFirst(res) == \E t \in AnalysisSteps : Settled(res, t)

\* await Promise.all([...four step.do...]) has resolved
FanInComplete(res) == \A t \in AnalysisSteps : Settled(res, t)

\* the statement that follows step s in run(); "analysis" is the Promise.all
NextStep(res, s) ==
    CASE s = "triage" -> "update-status-analyzing"
      [] s = "update-status-analyzing" -> "analysis"
      [] s = "analysis" -> "update-status-filtering"
      [] s = "update-status-filtering" -> "reachability-filter"
      [] s = "reachability-filter" -> "synthesis"
      [] s = "synthesis" -> "store-findings"
      [] s = "store-findings" -> "update-status-awaiting-approval"
      [] s = "update-status-awaiting-approval" -> "approval"
      [] s = "approval" ->
           IF ApprovalDeclined(res["approval"].value)
           THEN "update-status-completed-no-remediation"
           ELSE "update-status-remediating"
      [] s = "update-status-completed-no-remediation" -> "done"
      [] s = "update-status-remediating" -> "remediation"
      [] s = "remediation" -> "store-remediations"
      [] s = "store-remediations" -> "update-status-completed"
      [] s = "update-status-completed" -> "done"

Skippable(res, s) == IF s = "analysis" THEN FanInComplete(res) ELSE Settled(res, s)

RECURSIVE Walk(_, _)
\* run() executed from statement s on: the first statement that has to run
Walk(res, s) ==
    IF s = "done" THEN "done"
    ELSE IF Skippable(res, s) THEN Walk(res, NextStep(res, s)) ELSE s

\* where run() is after statement s has produced its result
After(res, s) ==
    IF s \in AnalysisSteps THEN Walk(res, "analysis") ELSE Walk(res, NextStep(res, s))

(***************************************************************************)
(* The inference stages.  The model's response is an input; each stage is  *)
(* what the stage function makes of it.                                    *)
(***************************************************************************)
TriageOutputs ==
    { [ injectionRisk |-> FALSE, sinks |-> 0, entryPoints |-> 0 ],
      [ injectionRisk |-> TRUE, sinks |-> 1, entryPoints |-> 1 ] }

RawFinding(id, category, severity, title, startLine) ==
    [ id |-> id, category |-> category, severity |-> severity,
      title |-> title, location |-> [ startLine |-> startLine ] ]

\* the text runAIAnalysis returns, by what is left of it once the code fence and
\* the prose around the JSON are stripped: no JSON, a JSON object, a JSON array
TextResponse == [ kind |-> "text", items |-> <<>> ]
ObjectResponse == [ kind |-> "object", items |-> <<>> ]
ArrayResponse(items) == [ kind |-> "array", items |-> items ]

\* one element of the array in a response
ResponseItem(id, category, severity, title, startLine) ==
    [ id |-> id, category |-> category, severity |-> severity,
      title |-> title, location |-> [ startLine |-> startLine ] ]

MalformedResponses == { TextResponse, ObjectResponse }

\* parseJsonResponse: JSON.parse of the extracted text, which throws on no JSON
parseJsonResponse(response) ==
    IF response.kind = "text"
    THEN [ threw |-> TRUE, isArray |-> FALSE, value |-> <<>> ]
    ELSE [ threw |-> FALSE, isArray |-> response.kind = "array",
           value |-> response.items ]

\* what a stage function does: throws, or returns its findings
Thrown == [ threw |-> TRUE, value |-> <<>> ]
Returned(findings) == [ threw |-> FALSE, value |-> findings ]

\* finding.id || generateId(`${prefix}-${index}`)
IdOr(id, prefix, index) ==
    IF id = Undefined \/ id = ""
    THEN generateId(<<prefix, index - 1>>, "t1", "x1")
    ELSE id

\* finding.category || "injection"
CategoryOr(category, default) ==
    IF category = Undefined \/ category = "" THEN default ELSE category

\* runDependencyStage: the parse is not guarded, and findings.map throws on a
\* value that is not an array; each finding gets category "dependency"
runDependencyStage(response) ==
    LET findings == parseJsonResponse(response)
    IN  IF findings.threw \/ ~findings.isArray THEN Thrown
        ELSE Returned([ i \in 1..Len(findings.value) |->
                          RawFinding(IdOr(findings.value[i].id, "dep", i), "dependency",
                                     findings.value[i].severity,
                                     findings.value[i].title,
                                     findings.value[i].location.startLine) ])

\* the category of an item is the model's: the task's own, or another
DependencyResponses ==
    MalformedResponses
        \cup { ArrayResponse(<<>>),
               ArrayResponse(<< ResponseItem("f1", "dependency", "high",
                                             "SQL injection", 10) >>),
               ArrayResponse(<< ResponseItem("f1", "auth", "high",
                                             "SQL injection", 10) >>) }

DependencyOutputs == { runDependencyStage(response) : response \in DependencyResponses }

\* runAuthStage
AuthOutputs ==
    { <<>>, << RawFinding("f2", "auth", "critical", "Missing authorization", 20) >> }

\* what runInjectionStage reads of a triage result: whether a risk area has one of
\* the categories injection, xss, ssrf, path_traversal, and the lengths of
\* dataFlowMap.sinks and entryPoints
TriageResults == [ injectionRisk : BOOLEAN, sinks : 0..1, entryPoints : 0..1 ]

InjectionShortCircuitOnRiskAreas(triage) == ~triage.injectionRisk

\* runInjectionStage returns [] without an inference call
InjectionShortCircuit(triage) ==
    ~triage.injectionRisk /\ ~(triage.sinks > 0) /\ triage.entryPoints = 0

\* the number of env.AI.run calls of one runInjectionStage call: none before the
\* early return, then the one of runAIAnalysis
InjectionInferenceCalls(triage) == IF InjectionShortCircuit(triage) THEN 0 ELSE 1

\* runInjectionStage: try { parse; not an array: [] } catch { [] }
runInjectionStage(triage, response) ==
    IF InjectionShortCircuit(triage) THEN Returned(<<>>)
    ELSE LET findings == parseJsonResponse(response)
         IN  IF findings.threw \/ ~findings.isArray THEN Returned(<<>>)
             ELSE Returned([ i \in 1..Len(findings.value) |->
                               RawFinding(IdOr(findings.value[i].id, "inj", i),
                                          CategoryOr(findings.value[i].category,
                                                     "injection"),
                                          findings.value[i].severity,
                                     findings.value[i].title,
                                     findings.value[i].location.startLine) ])

InjectionResponses ==
    MalformedResponses
        \cup { ArrayResponse(<<>>),
               ArrayResponse(<< ResponseItem("f3", "xss", "medium", "SQL injection", 10) >>) }

InjectionOutputs(triage) ==
    { runInjectionStage(triage, response) : response \in InjectionResponses }

\* runSecretsStage: try { parse; not an array: [] } catch { [] }
runSecretsStage(response) ==
    LET findings == parseJsonResponse(response)
    IN  IF findings.threw \/ ~findings.isArray THEN Returned(<<>>)
        ELSE Returned([ i \in 1..Len(findings.value) |->
                          RawFinding(IdOr(findings.value[i].id, "sec", i), "secrets",
                                     findings.value[i].severity,
                                     findings.value[i].title,
                                     findings.value[i].location.startLine) ])

\* ids come from the response, so they can repeat another task's
SecretsResponses ==
    MalformedResponses
        \cup { ArrayResponse(<<>>),
               ArrayResponse(<< ResponseItem("f3", Undefined, "low", "SQL injection", 10) >>),
               ArrayResponse(<< ResponseItem("f3", "injection", "low", "SQL injection", 10) >>) }

SecretsOutputs == { runSecretsStage(response) : response \in SecretsResponses }

\* const allRawFindings = [...dependency, ...auth, ...injection, ...secrets]
AllRawFindings(res) ==
    res["dependency-analysis"].value \o res["auth-analysis"].value
        \o res["injection-analysis"].value \o res["secrets-analysis"].value

ReachabilityAnalysisKeepingReason(isReachable) ==
    IF isReachable
    THEN [ dataFlowPath |-> <<"source", "sink">>,
           falsePositiveReason |-> "no path from user input" ]
    ELSE [ dataFlowPath |-> <<>>, falsePositiveReason |-> "no path from user input" ]

\* the analysis recorded with a verdict: a reachable finding carries a non-empty
\* data flow path and no reason, an unreachable one a reason and no path
ReachabilityAnalysis(isReachable) ==
    IF isReachable
    THEN [ dataFlowPath |-> <<"source", "sink">>, falsePositiveReason |-> Undefined ]
    ELSE [ dataFlowPath |-> <<>>, falsePositiveReason |-> "no path from user input" ]

\* a RawFinding annotated with a reachability verdict
Finding(raw, isReachable) ==
    [ id |-> raw.id, category |-> raw.category, severity |-> raw.severity,
      title |-> raw.title, location |-> raw.location,
      isReachable |-> isReachable,
      reachabilityAnalysis |-> ReachabilityAnalysis(isReachable) ]

\* the verdicts the inference call returns for n findings: one for the first
\* finding and one for the findings after it
Verdicts(n) ==
    { v \in [ 1..n -> BOOLEAN ] : \A i \in 2..n : v[i] = v[2] }

\* runReachabilityFilter: one Finding per raw finding, with a reachability verdict
ReachabilityOutputs(raw) ==
    { [ i \in 1..Len(raw) |-> Finding(raw[i], v[i]) ] : v \in Verdicts(Len(raw)) }

SynthesisResultShareKept(totalRaw, filtered) ==
    [ totalRaw |-> totalRaw,
      totalFiltered |-> ReachableCount(filtered),
      noiseReductionPercent |->
          IF totalRaw = 0 THEN Ratio(0, 1)
          ELSE Ratio(ReachableCount(filtered) * 100, totalRaw) ]

\* runSynthesisStage(env, allRawFindings.length, filteredFindings)
SynthesisResult(totalRaw, filtered) ==
    [ totalRaw |-> totalRaw,
      totalFiltered |-> ReachableCount(filtered),
      noiseReductionPercent |->
          IF totalRaw = 0 THEN Ratio(0, 1)
          ELSE Ratio((totalRaw - ReachableCount(filtered)) * 100, totalRaw) ]

ApprovedFindingsNamedOnly(filtered, approval) ==
    Filter(filtered, { f \in Range(filtered) : Includes(approval.findingIds, f.id) })

\* filteredFindings.filter((f) => f.isReachable && approval.findingIds.includes(f.id))
ApprovedFindings(filtered, approval) ==
    Filter(filtered,
           { f \in Range(filtered) : f.isReachable /\ Includes(approval.findingIds, f.id) })

\* runRemediationStage: one remediation per approved finding
RemediationOutput(approved) ==
    [ i \in 1..Len(approved) |->
        [ id |-> <<"rem", approved[i].id, i>>, findingId |-> approved[i].id ] ]

\* the findingIds a caller of approve_findings passes
ApprovalInputs == { <<>>, <<"f1", "f3">> }

\* the payloads an approval event can carry (interface ApprovalEvent)
ApprovedEvents == { [ approved |-> TRUE, findingIds |-> ids ] : ids \in ApprovalInputs }
DeclinedEvents == { [ approved |-> FALSE, findingIds |-> <<"f1">> ] }

(***************************************************************************)
(* State                                                                   *)
(***************************************************************************)
VARIABLES
    db,          \* the SQL storage of every Durable Object, by object name
    wfStatus,    \* workflow instance, by id: absent, running, complete, errored
    pc,          \* the statement of run() the instance is at
    results,     \* the recorded result of every step of the instance
    attempts,    \* the engine's count of the failed attempts of a stage step whose
                 \* result is not recorded; dropped when the result is recorded
    parseThrows, \* those of them that failed on the response of a successful call
    events,      \* approval events sent to the instance and not yet consumed
    wfError,     \* the error that ended the instance
    completed,   \* how many times each step's callback ran to completion
    handled,     \* the object has handled the request of the step's callback, which
                 \* has not resumed from its await yet
    replays,     \* how many callbacks were abandoned by a restart after their request
                 \* was handled
    approving,   \* the approve_findings calls that ran their UPDATEs and have not
                 \* sent their event yet
    remInput,    \* the findings handed to runRemediationStage
    statusLog    \* every status write made, in order, and whether it was broadcast

vars == << db, wfStatus, pc, results, attempts, parseThrows, events, wfError,
           completed, handled, replays, approving, remInput, statusLog >>

Init ==
    /\ db = [ d \in DoNames |-> EmptyStore ]
    /\ wfStatus = [ r \in ReviewIdPool |-> "absent" ]
    /\ pc = [ r \in ReviewIdPool |-> "triage" ]
    /\ results = [ r \in ReviewIdPool |-> [ s \in StepNames |-> NoResult ] ]
    /\ attempts = [ r \in ReviewIdPool |-> [ s \in StageSteps |-> 0 ] ]
    /\ parseThrows = [ r \in ReviewIdPool |-> [ s \in ParsingSteps |-> 0 ] ]
    /\ events = [ r \in ReviewIdPool |-> <<>> ]
    /\ wfError = [ r \in ReviewIdPool |-> Null ]
    /\ completed = [ r \in ReviewIdPool |-> [ s \in StepNames |-> 0 ] ]
    /\ handled = [ r \in ReviewIdPool |-> FALSE ]
    /\ replays = [ r \in ReviewIdPool |-> 0 ]
    /\ approving = [ r \in ReviewIdPool |-> <<>> ]
    /\ remInput = [ r \in ReviewIdPool |-> <<>> ]
    /\ statusLog = <<>>

\* the rows of table reviews that WHERE id = ? selects
ReviewRows(store, reviewId) == { row \in store.reviews : row.id = reviewId }

\* one status write: the statement's arguments, the object it ran in, the number
\* of rows it changed, and whether broadcastStatus followed it
LogEntry(reviewId, status, currentStage, do, rows, notified) ==
    [ reviewId |-> reviewId, status |-> status, currentStage |-> currentStage,
      do |-> do, rows |-> rows, notified |-> notified ]

(***************************************************************************)
(* The step engine: step.do with a retry policy, and the record of results *)
(***************************************************************************)
AtStep(r, s) ==
    /\ wfStatus[r] = "running"
    /\ IF s \in AnalysisSteps
       THEN pc[r] = "analysis" /\ ~Settled(results[r], s)
       ELSE pc[r] = s

\* the callback of step s returned v: the result is recorded and run() goes on
RecordStep(r, s, v) ==
    LET res2 == [ results[r] EXCEPT ![s] = Recorded(v) ]
        next == After(res2, s)
    IN  /\ results' = [ results EXCEPT ![r] = res2 ]
        /\ completed' = [ completed EXCEPT ![r][s] = @ + 1 ]
        /\ pc' = [ pc EXCEPT ![r] = next ]
        /\ wfStatus' = [ wfStatus EXCEPT ![r] = IF next = "done" THEN "complete" ELSE @ ]
        /\ attempts' = [ attempts EXCEPT ![r] =
                           [ t \in StageSteps |-> IF t = s THEN 0 ELSE @[t] ] ]
        /\ parseThrows' = [ parseThrows EXCEPT ![r] =
                           [ t \in ParsingSteps |-> IF t = s THEN 0 ELSE @[t] ] ]

ThrowsRetryingOnceMore(r, s) ==
    /\ attempts' = [ attempts EXCEPT ![r][s] = @ + 1 ]
    /\ IF attempts[r][s] <= RetryLimit
       THEN UNCHANGED << wfStatus, wfError >>
       ELSE /\ wfStatus' = [ wfStatus EXCEPT ![r] = "errored" ]
            /\ wfError' = [ wfError EXCEPT ![r] = s ]
    /\ UNCHANGED << results, completed, pc >>

\* the callback of stage s threw: retried while the limit allows, else run() throws
Throws(r, s) ==
    /\ attempts' = [ attempts EXCEPT ![r][s] = @ + 1 ]
    /\ IF attempts[r][s] < RetryLimit
       THEN UNCHANGED << wfStatus, wfError >>
       ELSE /\ wfStatus' = [ wfStatus EXCEPT ![r] = "errored" ]
            /\ wfError' = [ wfError EXCEPT ![r] = s ]
    /\ UNCHANGED << results, completed, pc >>

\* the inference call of stage s threw
StageThrows(r, s) == Throws(r, s) /\ UNCHANGED parseThrows

\* the stage function threw after its inference call had returned
StageThrowsParsing(r, s) ==
    /\ Throws(r, s)
    /\ parseThrows' = [ parseThrows EXCEPT ![r][s] = @ + 1 ]

StageRunsSwallowingFailure(r, s, outs) ==
    \/ \E out \in outs : RecordStep(r, s, out) /\ UNCHANGED wfError
    \/ attempts[r][s] < RetryLimit /\ StageThrows(r, s)
    \/ /\ attempts[r][s] >= RetryLimit
       /\ \E out \in outs : RecordStep(r, s, out)
       /\ wfError' = [ wfError EXCEPT ![r] = s ]

\* one attempt of an inference stage whose possible results are outs
StageRuns(r, s, outs) ==
    \/ \E out \in outs : RecordStep(r, s, out) /\ UNCHANGED wfError
    \/ StageThrows(r, s)

\* one attempt of a stage that parses its response: outcomes are what the stage
\* function makes of the responses the inference call can return
ParsingStageRuns(r, s, outcomes) ==
    \/ \E out \in outcomes :
           IF out.threw
           THEN StageThrowsParsing(r, s)
           ELSE RecordStep(r, s, out.value) /\ UNCHANGED wfError
    \/ StageThrows(r, s)

(***************************************************************************)
(* The workflow's calls to the Durable Object                              *)
(***************************************************************************)
\* fetch of /update-status on object do: the UPDATE, then broadcastStatus
FetchUpdateStatus(do, reviewId, status, currentStage) ==
    /\ db' = [ db EXCEPT ![do] = UpdateStatusHandler(@, reviewId, status, currentStage) ]
    /\ statusLog' = Append(statusLog,
            LogEntry(reviewId, status, StageOrNull(currentStage), do,
                     Cardinality(ReviewRows(db[do], reviewId)), TRUE))

\* fetch of /store-findings on object do
FetchStoreFindings(do, reviewId, findings, synthesis) ==
    /\ db' = [ db EXCEPT ![do] = StoreFindingsHandler(@, reviewId, findings, synthesis) ]
    /\ UNCHANGED statusLog

\* fetch of /store-remediations on object do
FetchStoreRemediations(do, reviewId, remediations) ==
    /\ db' = [ db EXCEPT ![do] = StoreRemediationsHandler(@, reviewId, remediations) ]
    /\ UNCHANGED statusLog

updateReviewStatus(r, status, currentStage) ==
    FetchUpdateStatus(WorkflowDoName(r), r, status, currentStage)

storeFindings(r, findings, synthesis) ==
    FetchStoreFindings(WorkflowDoName(r), r, findings, synthesis)

storeRemediations(r, remediations) ==
    FetchStoreRemediations(WorkflowDoName(r), r, remediations)

\* the callback of step s is at `await stub.fetch(...)`; the object has handled
\* the request, the step is not recorded
AwaitsFetch(r) ==
    /\ handled' = [ handled EXCEPT ![r] = TRUE ]
    /\ UNCHANGED << wfStatus, pc, results, attempts, parseThrows, completed >>

\* the callback of step s resumed from its await and returned: the engine
\* records the step
CallbackReturns(r, s) ==
    /\ RecordStep(r, s, "ok")
    /\ handled' = [ handled EXCEPT ![r] = FALSE ]
    /\ UNCHANGED << db, statusLog >>

\* a step.do whose callback only updates the status
StatusStep(r, s, status, currentStage) ==
    /\ AtStep(r, s)
    /\ IF ~handled[r]
       THEN updateReviewStatus(r, status, currentStage) /\ AwaitsFetch(r)
       ELSE CallbackReturns(r, s)
    /\ UNCHANGED << events, wfError, replays, approving, remInput >>

(***************************************************************************)
(* The steps of run(), in program order                                    *)
(***************************************************************************)
Triage(r) ==
    /\ AtStep(r, "triage")
    /\ StageRuns(r, "triage", TriageOutputs)
    /\ UNCHANGED << db, events, handled, replays, approving, remInput, statusLog >>

UpdateStatusAnalyzing(r) ==
    StatusStep(r, "update-status-analyzing", "analyzing", "dependency")

DependencyAnalysis(r) ==
    /\ AtStep(r, "dependency-analysis")
    /\ ParsingStageRuns(r, "dependency-analysis", DependencyOutputs)
    /\ UNCHANGED << db, events, handled, replays, approving, remInput, statusLog >>

AuthAnalysis(r) ==
    /\ AtStep(r, "auth-analysis")
    /\ StageRuns(r, "auth-analysis", AuthOutputs)
    /\ UNCHANGED << db, events, handled, replays, approving, remInput, statusLog >>

InjectionAnalysis(r) ==
    /\ AtStep(r, "injection-analysis")
    /\ IF InjectionShortCircuit(results[r]["triage"].value)
       THEN /\ RecordStep(r, "injection-analysis",
                          runInjectionStage(results[r]["triage"].value, TextResponse).value)
            /\ UNCHANGED wfError
       ELSE ParsingStageRuns(r, "injection-analysis",
                             InjectionOutputs(results[r]["triage"].value))
    /\ UNCHANGED << db, events, handled, replays, approving, remInput, statusLog >>

SecretsAnalysis(r) ==
    /\ AtStep(r, "secrets-analysis")
    /\ ParsingStageRuns(r, "secrets-analysis", SecretsOutputs)
    /\ UNCHANGED << db, events, handled, replays, approving, remInput, statusLog >>

UpdateStatusFiltering(r) ==
    StatusStep(r, "update-status-filtering", "filtering", "reachability")

ReachabilityFilter(r) ==
    /\ AtStep(r, "reachability-filter")
    /\ StageRuns(r, "reachability-filter",
                 ReachabilityOutputs(AllRawFindings(results[r])))
    /\ UNCHANGED << db, events, handled, replays, approving, remInput, statusLog >>

Synthesis(r) ==
    /\ AtStep(r, "synthesis")
    /\ StageRuns(r, "synthesis",
                 { SynthesisResult(Len(AllRawFindings(results[r])),
                                   results[r]["reachability-filter"].value) })
    /\ UNCHANGED << db, events, handled, replays, approving, remInput, statusLog >>

StoreFindings(r) ==
    /\ AtStep(r, "store-findings")
    /\ IF ~handled[r]
       THEN /\ storeFindings(r, results[r]["reachability-filter"].value,
                             results[r]["synthesis"].value)
            /\ AwaitsFetch(r)
       ELSE CallbackReturns(r, "store-findings")
    /\ UNCHANGED << events, wfError, replays, approving, remInput >>

UpdateStatusAwaitingApproval(r) ==
    StatusStep(r, "update-status-awaiting-approval", "awaiting_approval", "approval")

\* step.waitForEvent("approval", ...) receives the oldest buffered event
WaitForApproval(r) ==
    /\ AtStep(r, "approval")
    /\ events[r] # <<>>
    /\ RecordStep(r, "approval", Head(events[r]))
    /\ events' = [ events EXCEPT ![r] = Tail(@) ]
    /\ UNCHANGED << db, wfError, handled, replays, approving, remInput, statusLog >>

\* no event within the 7 days: waitForEvent rejects, and run() has no handler
ApprovalTimeout(r) ==
    /\ AtStep(r, "approval")
    /\ events[r] = <<>>
    /\ wfStatus' = [ wfStatus EXCEPT ![r] = "errored" ]
    /\ wfError' = [ wfError EXCEPT ![r] = "timeout" ]
    /\ UNCHANGED << db, pc, results, attempts, events, completed, handled, replays, approving,
                    parseThrows, remInput, statusLog >>

UpdateStatusCompletedNoRemediation(r) ==
    StatusStep(r, "update-status-completed-no-remediation", "completed", Undefined)

UpdateStatusRemediating(r) ==
    StatusStep(r, "update-status-remediating", "remediating", "remediation")

Remediation(r) ==
    LET approvedFindings ==
            ApprovedFindings(results[r]["reachability-filter"].value,
                             results[r]["approval"].value)
    IN  /\ AtStep(r, "remediation")
        /\ StageRuns(r, "remediation", { RemediationOutput(approvedFindings) })
        /\ remInput' = [ remInput EXCEPT ![r] = approvedFindings ]
        /\ UNCHANGED << db, events, handled, replays, approving, statusLog >>

StoreRemediations(r) ==
    /\ AtStep(r, "store-remediations")
    /\ IF ~handled[r]
       THEN storeRemediations(r, results[r]["remediation"].value) /\ AwaitsFetch(r)
       ELSE CallbackReturns(r, "store-remediations")
    /\ UNCHANGED << events, wfError, replays, approving, remInput >>

UpdateStatusCompleted(r) ==
    StatusStep(r, "update-status-completed", "completed", Undefined)

\* the engine restarts the instance: run() is executed again from the top and
\* every step with a recorded result returns it without running; a callback
\* that was awaiting its request is abandoned and its step runs again
Restart(r) ==
    /\ wfStatus[r] = "running"
    /\ handled[r] => replays[r] < MaxReplays
    /\ handled' = [ handled EXCEPT ![r] = FALSE ]
    /\ replays' = [ replays EXCEPT ![r] = IF handled[r] THEN @ + 1 ELSE @ ]
    /\ pc' = [ pc EXCEPT ![r] = Walk(results[r], "triage") ]
    /\ UNCHANGED << db, wfStatus, results, attempts, events, wfError, completed,
                    parseThrows, approving, remInput, statusLog >>

(***************************************************************************)
(* The MCP tools of the agent that change state                            *)
(***************************************************************************)
\* submit_review up to its await: the review row is inserted with status
\* 'pending' and the workflow instance is created with the review id as its id
SubmitReviewCreate(r, userId) ==
    /\ wfStatus[r] = "absent"
    /\ ReviewRows(db[AgentDoName], r) = {}
    /\ db' = [ db EXCEPT ![AgentDoName].reviews = @ \cup { NewReviewRow(r, userId) } ]
    /\ wfStatus' = [ wfStatus EXCEPT ![r] = "running" ]
    /\ statusLog' = Append(statusLog, LogEntry(r, "pending", Null, AgentDoName, 1, FALSE))
    /\ UNCHANGED << pc, results, attempts, events, wfError, completed, handled, replays, approving,
                    parseThrows, remInput >>

\* submit_review after create() resolved: UPDATE reviews SET workflow_instance_id,
\* status = 'triaging', current_stage = 'triage', then broadcastStatus
SubmitReviewFinish(r) ==
    /\ \E row \in ReviewRows(db[AgentDoName], r) : row.workflow_instance_id = NullId
    /\ db' = [ db EXCEPT ![AgentDoName].reviews =
                 { IF row.id = r
                   THEN [ row EXCEPT !.workflow_instance_id = r,
                                     !.status = "triaging",
                                     !.current_stage = "triage" ]
                   ELSE row : row \in @ } ]
    /\ statusLog' = Append(statusLog, LogEntry(r, "triaging", "triage", AgentDoName, 1, TRUE))
    /\ UNCHANGED << wfStatus, pc, results, attempts, events, wfError, completed,
                    parseThrows, handled, replays, approving, remInput >>

MarkApprovedById(findings, reviewId, findingIds) ==
    { IF Includes(findingIds, row.id)
      THEN [ row EXCEPT !.approved = 1, !.approved_at = "now" ]
      ELSE row : row \in findings }

\* UPDATE findings SET approved = 1, approved_at = ? WHERE id = ? AND review_id = ?
MarkApproved(findings, reviewId, findingIds) ==
    { IF row.review_id = reviewId /\ Includes(findingIds, row.id)
      THEN [ row EXCEPT !.approved = 1, !.approved_at = "now" ]
      ELSE row : row \in findings }

\* instance.sendEvent reaches the instance: it exists and has not ended
CanDeliver(instanceId) ==
    /\ instanceId # NullId
    /\ wfStatus[instanceId] = "running"

\* the error response of the tools
NotFound == [ error |-> "Review not found" ]

\* approve_findings on a store: its response, the finding rows it leaves, and
\* whether it goes on to send the approval event
approve_findings(store, reviewId, findingIds) ==
    IF ReviewRows(store, reviewId) = {}
    THEN [ response |-> NotFound, findings |-> store.findings, sendEvent |-> FALSE ]
    ELSE [ response |-> [ approvedFindingIds |-> findingIds ],
           findings |-> MarkApproved(store.findings, reviewId, findingIds),
           sendEvent |-> TRUE ]

ApproveFindingsSettingStatus(r, findingIds) ==
    /\ ReviewRows(db[AgentDoName], r) # {}
    /\ Len(approving[r]) < MaxCalls
    /\ LET review == CHOOSE row \in ReviewRows(db[AgentDoName], r) : TRUE
           call == approve_findings(db[AgentDoName], r, findingIds)
       IN  /\ call.sendEvent
           /\ db' = [ db EXCEPT
                  ![AgentDoName].findings = call.findings,
                  ![AgentDoName].reviews =
                      { IF row.id = r
                        THEN [ row EXCEPT !.status = "remediating",
                                          !.current_stage = "remediation" ]
                        ELSE row : row \in @ } ]
           /\ approving' = [ approving EXCEPT ![r] =
                  Append(@, [ findingIds |-> findingIds,
                              instanceId |-> review.workflow_instance_id ]) ]
    /\ UNCHANGED << wfStatus, pc, results, attempts, events, wfError, completed,
                    handled, replays, parseThrows, remInput, statusLog >>

\* approve_findings for a review the agent holds, up to its first await: the
\* review row is read and the UPDATEs run
ApproveFindings(r, findingIds) ==
    /\ ReviewRows(db[AgentDoName], r) # {}
    /\ Len(approving[r]) < MaxCalls
    /\ LET review == CHOOSE row \in ReviewRows(db[AgentDoName], r) : TRUE
           call == approve_findings(db[AgentDoName], r, findingIds)
       IN  /\ call.sendEvent
           /\ db' = [ db EXCEPT ![AgentDoName].findings = call.findings ]
           /\ approving' = [ approving EXCEPT ![r] =
                  Append(@, [ findingIds |-> findingIds,
                              instanceId |-> review.workflow_instance_id ]) ]
    /\ UNCHANGED << wfStatus, pc, results, attempts, events, wfError, completed,
                    handled, replays, parseThrows, remInput, statusLog >>

\* approve_findings resumes: SECPIPE_WORKFLOW.get and instance.sendEvent with the
\* instance id read before the UPDATEs; a failure is caught, and the tool returns
\* approvedFindingIds.  The get changes no state (a handle, or a throw for the
\* null id), so resuming from it alone is a stuttering step.
ApproveFindingsSend(r) ==
    /\ \E i \in 1..Len(approving[r]) :
           LET call == approving[r][i]
           IN  /\ IF CanDeliver(call.instanceId)
                  THEN /\ Len(events[call.instanceId]) < MaxEvents
                       /\ events' = [ events EXCEPT ![call.instanceId] =
                              Append(@, [ approved |-> TRUE,
                                          findingIds |-> call.findingIds ]) ]
                  ELSE UNCHANGED events
               /\ approving' = [ approving EXCEPT ![r] =
                      SubSeq(@, 1, i - 1) \o SubSeq(@, i + 1, Len(@)) ]
    /\ UNCHANGED << db, wfStatus, pc, results, attempts, wfError, completed,
                    handled, replays, parseThrows, remInput, statusLog >>

\* approve_findings for a review id the agent has no row for: "Review not found"
ApproveFindingsNotFound(r) ==
    /\ ReviewRows(db[AgentDoName], r) = {}
    /\ \E findingIds \in ApprovalInputs :
           LET call == approve_findings(db[AgentDoName], r, findingIds)
           IN  /\ db' = [ db EXCEPT ![AgentDoName].findings = call.findings ]
               /\ ~call.sendEvent
    /\ UNCHANGED << wfStatus, pc, results, attempts, events, wfError, completed,
                    parseThrows, handled, replays, approving, remInput, statusLog >>

\* an approval event sent to the instance by another holder of the workflow
\* binding, carrying a declined decision
SendDeclinedEvent(r, payload) ==
    /\ wfStatus[r] = "running"
    /\ Len(events[r]) < MaxEvents
    /\ events' = [ events EXCEPT ![r] = Append(@, payload) ]
    /\ UNCHANGED << db, wfStatus, pc, results, attempts, wfError, completed,
                    parseThrows, handled, replays, approving, remInput, statusLog >>

(***************************************************************************)
(* Specification                                                           *)
(***************************************************************************)
Next ==
    \E r \in ReviewIdPool :
        \/ \E u \in Users : SubmitReviewCreate(r, u)
        \/ SubmitReviewFinish(r)
        \/ \E ids \in ApprovalInputs : ApproveFindings(r, ids)
        \/ ApproveFindingsSend(r)
        \/ ApproveFindingsNotFound(r)
        \/ \E payload \in DeclinedEvents : SendDeclinedEvent(r, payload)
        \/ Triage(r)
        \/ UpdateStatusAnalyzing(r)
        \/ DependencyAnalysis(r)
        \/ AuthAnalysis(r)
        \/ InjectionAnalysis(r)
        \/ SecretsAnalysis(r)
        \/ UpdateStatusFiltering(r)
        \/ ReachabilityFilter(r)
        \/ Synthesis(r)
        \/ StoreFindings(r)
        \/ UpdateStatusAwaitingApproval(r)
        \/ WaitForApproval(r)
        \/ ApprovalTimeout(r)
        \/ UpdateStatusCompletedNoRemediation(r)
        \/ UpdateStatusRemediating(r)
        \/ Remediation(r)
        \/ StoreRemediations(r)
        \/ UpdateStatusCompleted(r)
        \/ Restart(r)

Spec == Init /\ [][Next]_vars

(***************************************************************************)
(* The endpoints of one object, requested with any arguments.  The object  *)
(* is the agent's, holding the row of a submitted review whose run has     *)
(* ended; requests also name a review the object holds no row for.         *)
(***************************************************************************)
\* Bound of the model: status writes of GatewaySpec
MaxLog == 2

GwReviewIds == ReviewIdPool \cup { generateId(<<"rev">>, "t2", "x2") }

GwStatusArgs == { << "analyzing", "dependency" >>, << "completed", Undefined >> }

GwFinding(id, category, severity, title, startLine, isReachable) ==
    Finding(RawFinding(id, category, severity, title, startLine), isReachable)

GwFindingLists ==
    { <<>>,
      << GwFinding("f1", "dependency", "high", "SQL injection", 10, TRUE) >>,
      << GwFinding("f1", "dependency", "high", "SQL injection", 10, FALSE),
         GwFinding("f2", "auth", "critical", "Missing authorization", 20, FALSE),
         GwFinding("f3", "injection", "info", "SQL injection", 10, TRUE) >>,
      << GwFinding("f1", "dependency", "low", "SQL injection", 10, FALSE),
         GwFinding("f2", "auth", "critical", "SQL injection", 20, TRUE) >>,
      << GwFinding("f2", "auth", "medium", "Missing authorization", 20, TRUE),
         GwFinding("f2", "secrets", "low", "Missing authorization", 20, FALSE) >> }

\* the synthesis the workflow sends with a finding list: the one computed from it
GwSyntheses(findings) == { SynthesisResult(Len(findings), findings) }

GwRemediation(id, findingId) == [ id |-> id, findingId |-> findingId ]

GwRemediationLists ==
    { << GwRemediation(<<"rem", "f1", 1>>, "f1") >>,
      << GwRemediation(<<"rem", "f1", 1>>, "f2"),
         GwRemediation(<<"rem", "f2", 2>>, "f2") >> }

GatewayInit ==
    /\ db = [ d \in DoNames |->
                IF d = AgentDoName
                THEN [ EmptyStore EXCEPT !.reviews =
                         { [ NewReviewRow(r, u) EXCEPT !.workflow_instance_id = r,
                                                       !.status = "triaging",
                                                       !.current_stage = "triage" ]
                           : r \in ReviewIdPool, u \in Users } ]
                ELSE EmptyStore ]
    /\ wfStatus = [ r \in ReviewIdPool |-> "complete" ]
    /\ pc = [ r \in ReviewIdPool |-> "done" ]
    /\ results = [ r \in ReviewIdPool |-> [ s \in StepNames |-> NoResult ] ]
    /\ attempts = [ r \in ReviewIdPool |-> [ s \in StageSteps |-> 0 ] ]
    /\ parseThrows = [ r \in ReviewIdPool |-> [ s \in ParsingSteps |-> 0 ] ]
    /\ events = [ r \in ReviewIdPool |-> <<>> ]
    /\ wfError = [ r \in ReviewIdPool |-> Null ]
    /\ completed = [ r \in ReviewIdPool |-> [ s \in StepNames |-> 0 ] ]
    /\ handled = [ r \in ReviewIdPool |-> FALSE ]
    /\ replays = [ r \in ReviewIdPool |-> 0 ]
    /\ approving = [ r \in ReviewIdPool |-> <<>> ]
    /\ remInput = [ r \in ReviewIdPool |-> <<>> ]
    /\ statusLog = <<>>

GwUpdateStatus(reviewId, status, currentStage) ==
    /\ Len(statusLog) < MaxLog
    /\ FetchUpdateStatus(AgentDoName, reviewId, status, currentStage)
    /\ UNCHANGED << wfStatus, pc, results, attempts, events, wfError, completed,
                    parseThrows, handled, replays, approving, remInput >>

GwStoreFindings(reviewId, findings, synthesis) ==
    /\ FetchStoreFindings(AgentDoName, reviewId, findings, synthesis)
    /\ UNCHANGED << wfStatus, pc, results, attempts, events, wfError, completed,
                    parseThrows, handled, replays, approving, remInput >>

GwStoreRemediations(reviewId, remediations) ==
    /\ FetchStoreRemediations(AgentDoName, reviewId, remediations)
    /\ UNCHANGED << wfStatus, pc, results, attempts, events, wfError, completed,
                    parseThrows, handled, replays, approving, remInput >>

GatewayNext ==
    \/ \E reviewId \in GwReviewIds, a \in GwStatusArgs :
           GwUpdateStatus(reviewId, a[1], a[2])
    \/ \E reviewId \in GwReviewIds, findings \in GwFindingLists :
           \E synthesis \in GwSyntheses(findings) :
               GwStoreFindings(reviewId, findings, synthesis)
    \/ \E reviewId \in GwReviewIds, remediations \in GwRemediationLists :
           GwStoreRemediations(reviewId, remediations)
    \/ \E r \in ReviewIdPool, ids \in ApprovalInputs : ApproveFindings(r, ids)
    \/ \E r \in ReviewIdPool : ApproveFindingsSend(r)
    \/ \E reviewId \in GwReviewIds \ ReviewIdPool : ApproveFindingsNotFound(reviewId)

GatewaySpec == GatewayInit /\ [][GatewayNext]_vars

(***************************************************************************)
(* Observations used by the properties                                     *)
(***************************************************************************)
\* the callback of step s has been invoked, or run() stands at s
Started(r, s) ==
    \/ completed[r][s] > 0
    \/ s \in StageSteps /\ attempts[r][s] > 0
    \/ wfStatus[r] = "running" /\ pc[r] = s

\* stage s of the run has used up its retries
Exhausted(r, s) == s \in StageSteps /\ attempts[r][s] > RetryLimit

\* the status values written for review r, in the order of the writes
RECURSIVE StatusesOf(_, _)
StatusesOf(log, r) ==
    IF log = <<>> THEN <<>>
    ELSE IF Head(log).reviewId = r
         THEN <<Head(log).status>> \o StatusesOf(Tail(log), r)
         ELSE StatusesOf(Tail(log), r)

\* the review rows of r, in whatever object holds one (what check_status reads)
PersistedReviews(r) == UNION { ReviewRows(db[d], r) : d \in DoNames }

\* the remediation rows of review r, in whatever object holds one
PersistedRemediations(r) ==
    UNION { { row \in db[d].remediations : row.review_id = r } : d \in DoNames }

\* the approval event the wait of run r received
Decision(r) == results[r]["approval"].value

(***************************************************************************)
(* Properties                                                              *)
(***************************************************************************)
AfterFanIn == { "update-status-filtering", "reachability-filter", "synthesis" }

\* C1: the 'filtering' status update, the reachability filter and synthesis
\* start only once all four analysis steps have a recorded result, each run once;
\* and when one analysis step has exhausted its retries none of them ever
\* starts, whatever the other three did.
C1_FanInJoin ==
    \A r \in ReviewIdPool :
        /\ (\E s \in AfterFanIn : Started(r, s)) =>
               \A t \in AnalysisSteps : results[r][t].done /\ completed[r][t] = 1
        /\ (\E t \in AnalysisSteps : Exhausted(r, t)) =>
               /\ wfStatus[r] = "errored"
               /\ \A s \in AfterFanIn : ~Started(r, s)

\* one analysis step exhausted its retries after the other three succeeded
C1_Witness ==
    \E r \in ReviewIdPool : \E t \in AnalysisSteps :
        /\ Exhausted(r, t)
        /\ \A u \in AnalysisSteps \ { t } : results[r][u].done

\* C2: when a stage of a run has exhausted its retries, the review's persisted
\* status is 'failed' and its error field holds the error of that stage.
C2_FailureRecorded ==
    \A r \in ReviewIdPool :
        (\E s \in StageSteps : Exhausted(r, s)) =>
            \E row \in PersistedReviews(r) :
                row.status = "failed" /\ row.error = wfError[r]

\* C3: when the approval event received by the wait is declined (approved =
\* false, or no finding ids), the run ends with the review's status 'completed',
\* the remediation stage never invoked, 'remediating' never written and no
\* remediation row for the review.
C3_DeclinedCompletes ==
    \A r \in ReviewIdPool :
        (results[r]["approval"].done /\ ApprovalDeclined(Decision(r))) =>
            /\ ~Started(r, "remediation")
            /\ ~Includes(StatusesOf(statusLog, r), "remediating")
            /\ PersistedRemediations(r) = {}
            /\ wfStatus[r] = "complete" =>
                   \A row \in PersistedReviews(r) : row.status = "completed"

\* C4: when no approval event arrives within the wait, the run ends like a
\* declined one: the review's status is 'completed', with no remediation.
C4_TimeoutCompletes ==
    \A r \in ReviewIdPool :
        (wfStatus[r] # "running" /\ wfError[r] = "timeout") =>
            /\ \A row \in PersistedReviews(r) : row.status = "completed"
            /\ ~Started(r, "remediation")
            /\ PersistedRemediations(r) = {}

\* C5: on the approval path the findings handed to the remediation stage are
\* exactly the filtered findings of the run that are reachable and named in the
\* event's findingIds.
C5_RemediatesApprovedReachable ==
    \A r \in ReviewIdPool :
        (completed[r]["remediation"] > 0 \/ attempts[r]["remediation"] > 0) =>
            LET filtered == Range(results[r]["reachability-filter"].value)
                named == Range(Decision(r).findingIds)
                handed == Range(remInput[r])
            IN  /\ Decision(r).approved /\ named # {}
                /\ handed \subseteq filtered
                /\ \A f \in filtered :
                       f \in handed <=> (f.isReachable /\ f.id \in named)
                /\ \A row \in PersistedRemediations(r) :
                       \E f \in handed : row.finding_id = f.id

\* f1 and f3 are reachable and named, f2 exists and is not named: remediation
\* rows are stored for f1 and f3 only
C5_Witness ==
    \E r \in ReviewIdPool :
        /\ completed[r]["store-remediations"] = 1
        /\ Decision(r).findingIds = <<"f1", "f3">>
        /\ \E f \in Range(results[r]["reachability-filter"].value) : f.id = "f2"
        /\ { row.finding_id : row \in PersistedRemediations(r) } = { "f1", "f3" }

\* C6: the remediation stage and store-remediations run, and a remediation row
\* of a review exists, only after 'awaiting_approval' was written for the review
\* and the wait consumed an event with approved = true.
C6_ApprovalGatesRemediation ==
    \A r \in ReviewIdPool :
        (\/ Started(r, "remediation")
         \/ Started(r, "store-remediations")
         \/ PersistedRemediations(r) # {}) =>
            /\ Includes(StatusesOf(statusLog, r), "awaiting_approval")
            /\ results[r]["approval"].done
            /\ Decision(r).approved

\* remediations are stored for a review
C6_Witness ==
    \E r \in ReviewIdPool :
        /\ PersistedRemediations(r) # {}
        /\ completed[r]["store-remediations"] = 1

\* C9: every operation of run() is a checkpointed step, so a step with a recorded
\* result never runs again, also after a restart: each step's callback completes
\* at most once, exactly when its result is recorded, and a running instance
\* stands at a step without a recorded result.
C9_CheckpointedResume ==
    \A r \in ReviewIdPool :
        /\ StepNames \subseteq Checkpointed
        /\ \A s \in StepNames :
               /\ completed[r][s] <= 1
               /\ (completed[r][s] = 1) <=> results[r][s].done
               /\ (wfStatus[r] = "running" /\ pc[r] = s) => ~results[r][s].done
        /\ (wfStatus[r] = "running" /\ pc[r] = "analysis") =>
               \E t \in AnalysisSteps : ~results[r][t].done

\* a run that was restarted after results were recorded went on to complete
C9_Witness ==
    \E r \in ReviewIdPool :
        /\ replays[r] > 0
        /\ wfStatus[r] = "complete"
        /\ completed[r]["synthesis"] = 1

StatusOrder ==
    << "pending", "triaging", "analyzing", "filtering", "awaiting_approval",
       "remediating", "completed" >>

Rank(status) == CHOOSE i \in 1..Len(StatusOrder) : StatusOrder[i] = status

\* C10: the statuses written for a review start with pending and each is the
\* immediate successor of the one written before it in the order pending,
\* triaging, analyzing, filtering, awaiting_approval, remediating, completed,
\* except that completed may follow awaiting_approval.
C10_StatusSequence ==
    \A r \in ReviewIdPool :
        LET w == StatusesOf(statusLog, r)
        IN  /\ w # <<>> => w[1] = "pending"
            /\ \A i \in 1..(Len(w) - 1) :
                   \/ Rank(w[i + 1]) = Rank(w[i]) + 1
                   \/ w[i] = "awaiting_approval" /\ w[i + 1] = "completed"

\* what the object holds
Gateway == db[AgentDoName]

\* C7: store-findings is idempotent: requested twice in a row with the same
\* arguments it leaves the finding rows and the review's total_findings_raw,
\* total_findings_filtered and noise_reduction_percent as one request leaves them.
C7_StoreFindingsIdempotent ==
    \A reviewId \in GwReviewIds, findings \in GwFindingLists :
        \A synthesis \in GwSyntheses(findings) :
            LET once == StoreFindingsHandler(Gateway, reviewId, findings, synthesis)
                twice == StoreFindingsHandler(once, reviewId, findings, synthesis)
            IN  /\ twice.findings = once.findings
                /\ twice.reviews = once.reviews

\* store-findings has acted on the review's row, and rows it wrote were approved
C7_Witness ==
    /\ \E row \in Gateway.reviews : row.total_findings_raw > 0
    /\ \E f \in Gateway.findings : f.approved = 1

\* C8: store-remediations requested again with the same arguments leaves the
\* same remediation rows, one per remediation id; update-status requested again
\* with the same arguments leaves the same status and current stage.
C8_RedeliveryIdempotent ==
    /\ \A reviewId \in GwReviewIds, remediations \in GwRemediationLists :
           LET once == StoreRemediationsHandler(Gateway, reviewId, remediations)
               twice == StoreRemediationsHandler(once, reviewId, remediations)
           IN  /\ twice.remediations = once.remediations
               /\ \A x, y \in twice.remediations : x.id = y.id => x = y
    /\ \A reviewId \in GwReviewIds, a \in GwStatusArgs :
           LET once == UpdateStatusHandler(Gateway, reviewId, a[1], a[2])
               twice == UpdateStatusHandler(once, reviewId, a[1], a[2])
           IN  twice.reviews = once.reviews

\* both operations have acted: remediations are stored and the status was updated
C8_Witness ==
    /\ Cardinality(Gateway.remediations) = 2
    /\ \E row \in Gateway.reviews : row.status = "completed" /\ row.current_stage = Null

\* C11: in every review row, whatever store operations were requested,
\* noise_reduction_percent is (total_findings_raw - total_findings_filtered) /
\* total_findings_raw * 100 when total_findings_raw > 0, and 0 when it is 0.
C11_NoisePercentConsistent ==
    \A d \in DoNames : \A row \in db[d].reviews :
        LET raw == row.total_findings_raw
            filtered == row.total_findings_filtered
            pct == row.noise_reduction_percent
        IN  /\ pct.den > 0
            /\ raw > 0 => pct.num * raw = pct.den * (raw - filtered) * 100
            /\ raw = 0 => pct.num = 0

\* a review's statistics were stored with three raw findings, one reachable
C11_Witness ==
    \E row \in Gateway.reviews :
        /\ row.total_findings_raw = 3
        /\ row.total_findings_filtered = 1
        /\ row.noise_reduction_percent = Ratio(200, 3)

\* the finding rows held by any object
PersistedFindings == UNION { db[d].findings : d \in DoNames }

\* C12: in every persisted finding, is_reachable is false iff
\* false_positive_reason is non-empty, and is_reachable is true iff the stored
\* data_flow_path holds at least one node.
C12_ReachabilityFieldsAgree ==
    \A row \in PersistedFindings :
        /\ row.is_reachable \in { 0, 1 }
        /\ (row.is_reachable = 0) <=> (row.false_positive_reason \notin { Null, "" })
        /\ (row.is_reachable = 1) <=> (JsonParse(row.data_flow_path) # <<>>)

\* the run stored a reachable and an unreachable finding
C12_Witness ==
    \E r \in ReviewIdPool :
        /\ completed[r]["store-findings"] = 1
        /\ \E x, y \in PersistedFindings :
               /\ x.review_id = r /\ y.review_id = r
               /\ x.is_reachable = 1 /\ y.is_reachable = 0

\* C13: malformed output is a soft failure of the dependency, injection and
\* secrets tasks: on a response that cannot be parsed or is not an array the
\* task returns an empty list, so no attempt of their steps fails on the
\* response of a successful inference call and no run is stopped by one.
C13_MalformedOutputIsSoft ==
    /\ \A response \in MalformedResponses :
           /\ \A triage \in TriageOutputs :
                  runInjectionStage(triage, response) = Returned(<<>>)
           /\ runSecretsStage(response) = Returned(<<>>)
    /\ \A r \in ReviewIdPool : \A s \in ParsingSteps :
           parseThrows[r][s] = 0

\* the run of review r is past its approval wait: the wait received an event,
\* or the run has ended (completed, or stopped by the expired wait or a failure)
PastApprovalWait(r) ==
    results[r]["approval"].done \/ wfStatus[r] \in { "complete", "errored" }

\* C14: an approval submitted once the run is past its approval wait is a no-op:
\* each step of the call that submits it (its UPDATEs, its sendEvent) changes
\* no review or finding or remediation row and writes no status, the event is
\* never received by the run (the decision the wait received stays), and the
\* remediation stage completes at most once.  Once
\* the run has ended the only write left is submit_review's own 'triaging'.
C14_LateApprovalIsNoOp ==
    [][ \A r \in ReviewIdPool :
          PastApprovalWait(r) =>
              /\ results'[r]["approval"] = results[r]["approval"]
              /\ completed'[r]["approval"] = completed[r]["approval"]
              /\ completed'[r]["remediation"] <= 1
              /\ (Len(events'[r]) > Len(events[r]) \/ approving'[r] # approving[r]) =>
                     UNCHANGED << db, statusLog, remInput, completed, results, pc,
                                  wfStatus >>
              /\ wfStatus[r] \in { "complete", "errored" } =>
                     /\ UNCHANGED << remInput, completed, results >>
                     /\ \A d \in DoNames :
                            /\ db'[d].findings = db[d].findings
                            /\ db'[d].remediations = db[d].remediations
                     /\ \/ UNCHANGED << db, statusLog >>
                        \/ statusLog'[Len(statusLog')].status = "triaging"
      ]_vars

\* an approval was submitted after the wait had received its event, and the run
\* was then restarted and completed with the remediations of the first decision
C14_Witness ==
    \E r \in ReviewIdPool :
        /\ wfStatus[r] = "complete"
        /\ replays[r] > 0
        /\ events[r] # <<>>
        /\ Head(events[r]).findingIds # Decision(r).findingIds
        /\ completed[r]["store-remediations"] = 1

\* C15: every status write after the review's creation changes the review's
\* row and is made together with its notification, and every notification is
\* for a status that was written to a review row.
C15_StatusNotificationPaired ==
    \A i \in 1..Len(statusLog) :
        /\ statusLog[i].status # "pending" => statusLog[i].notified
        /\ statusLog[i].notified => statusLog[i].rows > 0

\* get_findings: the rows SELECT * FROM findings WHERE review_id = ? [AND
\* is_reachable = 1] selects in the agent's store
GetFindingsRows(store, reviewId, includeFiltered) ==
    { row \in store.findings :
        row.review_id = reviewId /\ (includeFiltered \/ row.is_reachable = 1) }

\* the finding rows of review r, in whatever object holds one
FindingsOf(r) == { row \in PersistedFindings : row.review_id = r }

\* statistics were written to a row of review r
StatisticsStored(r) ==
    \E row \in PersistedReviews(r) :
        \/ row.total_findings_raw # 0
        \/ row.total_findings_filtered # 0
        \/ row.noise_reduction_percent # Ratio(0, 1)

\* the stages that precede store-findings in run()
StagesBeforeStore == { "triage", "reachability-filter", "synthesis" } \cup AnalysisSteps

\* C16: finding rows and statistics of a review are persisted (and store-findings
\* is reached) only when triage, the four analysis tasks, the reachability filter
\* and synthesis of its run each completed, once and with no failure; a run that
\* failed in one of them has no finding row, and get_findings returns none.
C16_NoFindingsBeforeSynthesis ==
    \A r \in ReviewIdPool :
        /\ (\/ FindingsOf(r) # {}
            \/ StatisticsStored(r)
            \/ Started(r, "store-findings")) =>
               /\ \A s \in StagesBeforeStore :
                      results[r][s].done /\ completed[r][s] = 1
               /\ wfError[r] \notin StagesBeforeStore
        /\ wfError[r] \in StagesBeforeStore =>
               /\ FindingsOf(r) = {}
               /\ ~StatisticsStored(r)
               /\ completed[r]["store-findings"] = 0
               /\ GetFindingsRows(db[AgentDoName], r, TRUE) = {}

\* synthesis exhausted its retries after the reachability filter had returned
\* findings: none of them is stored
C16_Witness ==
    \E r \in ReviewIdPool :
        /\ Exhausted(r, "synthesis")
        /\ wfStatus[r] = "errored"
        /\ Len(results[r]["reachability-filter"].value) > 1
        /\ FindingsOf(r) = {}

\* review.error || undefined
ErrorOrUndefined(error) == IF error = Null \/ error = "" THEN Undefined ELSE error

\* check_status called by user: SELECT * FROM reviews WHERE id = ?
check_status(user, reviewId) ==
    LET result == ReviewRows(db[AgentDoOf(user)], reviewId)
    IN  IF result = {} THEN NotFound
        ELSE LET review == CHOOSE row \in result : TRUE
             IN  [ reviewId |-> review.id, status |-> review.status,
                   currentStage |-> review.current_stage,
                   stats |-> [ rawFindings |-> review.total_findings_raw,
                               exploitableFindings |-> review.total_findings_filtered,
                               noiseReductionPercent |-> review.noise_reduction_percent ],
                   error |-> ErrorOrUndefined(review.error) ]

\* approve_findings called by user: the review is found and the call goes on
approve_findings_found(user, reviewId) ==
    ReviewRows(db[AgentDoOf(user)], reviewId) # {}

\* get_remediation called by user: SELECT * FROM remediations WHERE review_id = ?,
\* with AND finding_id = ? when a findingId is given
get_remediation(user, reviewId, findingId) ==
    IF findingId \in { Undefined, "" }
    THEN { row \in db[AgentDoOf(user)].remediations : row.review_id = reviewId }
    ELSE { row \in db[AgentDoOf(user)].remediations :
             row.review_id = reviewId /\ row.finding_id = findingId }

\* C17: check_status, get_findings and get_remediation called by a user for a
\* review another user created answer as for a review that does not exist, and
\* approve_findings called by that user does not find the review.
C17_UserIsolation ==
    \A r \in ReviewIdPool : \A b \in Callers :
        (\E row \in PersistedReviews(r) : row.user_id # b) =>
            /\ check_status(b, r) = NotFound
            /\ ~approve_findings_found(b, r)
            /\ GetFindingsRows(db[AgentDoOf(b)], r, TRUE) = {}
            /\ \A findingId \in { Undefined, "f1" } :
                   get_remediation(b, r, findingId) = {}

\* C18: a run in which no stage exhausts its retries and whose wait receives an
\* event that approves findings ends with the review's status 'completed': once
\* the run has executed its last step the review's row holds 'completed'; and
\* 'completed' is written only after the remediations are stored.
C18_ApprovedRunCompletes ==
    \A r \in ReviewIdPool :
        /\ (wfStatus[r] = "complete" /\ ~ApprovalDeclined(Decision(r))) =>
               \E row \in PersistedReviews(r) : row.status = "completed"
        /\ (/\ results[r]["approval"].done
            /\ ~ApprovalDeclined(Decision(r))
            /\ Includes(StatusesOf(statusLog, r), "completed")) =>
               completed[r]["store-remediations"] = 1

\* the place of a step in run(): a step with a greater place runs later
Place(s) ==
    CASE s = "triage" -> 1
      [] s = "update-status-analyzing" -> 2
      [] s \in AnalysisSteps -> 3
      [] s = "update-status-filtering" -> 4
      [] s = "reachability-filter" -> 5
      [] s = "synthesis" -> 6
      [] s = "store-findings" -> 7
      [] s = "update-status-awaiting-approval" -> 8
      [] s = "approval" -> 9
      [] s = "update-status-completed-no-remediation" -> 10
      [] s = "update-status-remediating" -> 10
      [] s = "remediation" -> 11
      [] s = "store-remediations" -> 12
      [] s = "update-status-completed" -> 13

\* C19: every inference stage is attempted at most three times in a run (one
\* attempt and two retries: it fails at most three times and its result is
\* recorded after at most two failures); when the third attempt fails the run has stopped
\* with that stage's error, no later step of run() has run, and from then on no
\* step runs, nothing is stored and no status is written by the run.
C19_BoundedRetry ==
    /\ [](\A r \in ReviewIdPool : \A s \in StageSteps :
             /\ attempts[r][s] <= RetryLimit + 1
             /\ attempts[r][s] = RetryLimit + 1 =>
                    /\ wfStatus[r] = "errored" /\ wfError[r] = s
                    /\ ~results[r][s].done
                    /\ \A t \in StepNames :
                           Place(t) > Place(s) =>
                               completed[r][t] = 0 /\ ~results[r][t].done)
    /\ [][ \A r \in ReviewIdPool :
            /\ \A s \in StageSteps :
                   completed'[r][s] > completed[r][s] => attempts[r][s] <= RetryLimit
            /\ wfStatus[r] = "errored" =>
                  /\ UNCHANGED << results, completed, attempts, pc, wfStatus, remInput >>
                  /\ db'[WorkflowDoName(r)] = db[WorkflowDoName(r)]
                  /\ \/ statusLog' = statusLog
                     \/ statusLog'[Len(statusLog')].do # WorkflowDoName(r)
      ]_vars

\* the remediation stage failed three times, after the findings were stored
C19_Witness ==
    \E r \in ReviewIdPool :
        /\ attempts[r]["remediation"] = RetryLimit + 1
        /\ wfStatus[r] = "errored"
        /\ completed[r]["store-findings"] = 1
        /\ completed[r]["store-remediations"] = 0

\* C20: once 'awaiting_approval' (or a later status) is written for a review, or
\* its run stands at the approval wait, the findings and the synthesis statistics
\* of the run are persisted: store-findings has completed, once, a finding row
\* is stored for every filtered finding, and the review's row holds the three
\* statistics of the run's synthesis.
C20_FindingsStoredBeforeApproval ==
    \A r \in ReviewIdPool :
        (\/ \E i \in 1..Len(statusLog) :
                /\ statusLog[i].reviewId = r
                /\ Rank(statusLog[i].status) >= Rank("awaiting_approval")
         \/ Started(r, "approval")) =>
            LET filtered == results[r]["reachability-filter"].value
                synthesis == results[r]["synthesis"].value
            IN  /\ completed[r]["store-findings"] = 1
                /\ results[r]["synthesis"].done
                /\ { row.id : row \in FindingsOf(r) } = { f.id : f \in Range(filtered) }
                /\ PersistedReviews(r) # {}
                /\ \A row \in PersistedReviews(r) :
                       /\ row.total_findings_raw = synthesis.totalRaw
                       /\ row.total_findings_filtered = synthesis.totalFiltered
                       /\ row.noise_reduction_percent = synthesis.noiseReductionPercent

\* the step.do calls of run() whose callback is updateReviewStatus
StatusUpdateSteps ==
    { "update-status-analyzing", "update-status-filtering",
      "update-status-awaiting-approval", "update-status-completed-no-remediation",
      "update-status-remediating", "update-status-completed" }

\* C21: once a review's row exists, its status and current_stage are changed
\* only by a step in which the object handles the request of one of the
\* update-status steps of the workflow's run of that review: no tool,
\* submit_review and approve_findings included, changes either field.
C21_OrchestratorSoleWriter ==
    [][ \A d \in DoNames : \A row \in db[d].reviews : \A row2 \in db'[d].reviews :
          (/\ row2.id = row.id
           /\ \/ row2.status # row.status
              \/ row2.current_stage # row.current_stage) =>
              /\ pc[row.id] \in StatusUpdateSteps
              /\ ~handled[row.id] /\ handled'[row.id]
      ]_vars

\* response items that carry no id, whatever their category
UnidentifiedItems ==
    { ResponseItem(id, category, "low", "SQL injection", 10) :
        id \in { Undefined, "" }, category \in { Undefined, "auth", "secrets" } }

\* the id a stage assigned to an item is not empty: the item's own, or the
\* generated one, which has the prefix, the timestamp and the random part
IdPresent(item, finding) ==
    IF item.id \in { Undefined, "" } THEN Len(finding.id) >= 3 ELSE finding.id = item.id

\* C22: every finding the dependency, injection and secrets tasks return has
\* the task's own category, whatever category the response's item carried, and
\* a non-empty id: the item's id when it has one, otherwise a generated one.
C22_CategoryForcedIdPresent ==
    /\ \A r \in ReviewIdPool :
           /\ \A f \in Range(results[r]["dependency-analysis"].value) :
                  f.category = "dependency" /\ f.id # ""
           /\ \A f \in Range(results[r]["injection-analysis"].value) :
                  f.category = "injection" /\ f.id # ""
           /\ \A f \in Range(results[r]["secrets-analysis"].value) :
                  f.category = "secrets" /\ f.id # ""
    /\ \A item \in UnidentifiedItems : \A triage \in TriageOutputs :
           LET response == ArrayResponse(<< item >>)
               dependency == runDependencyStage(response).value
               injection == runInjectionStage(triage, response).value
               secrets == runSecretsStage(response).value
           IN  /\ IdPresent(item, dependency[1]) /\ dependency[1].category = "dependency"
               /\ IdPresent(item, secrets[1]) /\ secrets[1].category = "secrets"
               /\ injection # <<>> =>
                      /\ IdPresent(item, injection[1])
                      /\ injection[1].category = "injection"

\* ORDER BY CASE severity WHEN 'critical' THEN 1 ... ELSE 5 END
SeverityRank(severity) ==
    CASE severity = "critical" -> 1
      [] severity = "high" -> 2
      [] severity = "medium" -> 3
      [] severity = "low" -> 4
      [] OTHER -> 5

\* the orders in which a query can return rows
Orderings(rows) ==
    { seq \in [ 1..Cardinality(rows) -> rows ] : Range(seq) = rows }

\* mapFindingFromDb
mapFindingFromDb(row) ==
    [ id |-> row.id, category |-> row.category, severity |-> row.severity,
      title |-> row.title,
      location |-> [ startLine |-> row.location_start_line ],
      isReachable |-> row.is_reachable = 1,
      reachabilityAnalysis |->
          [ dataFlowPath |-> JsonParse(row.data_flow_path),
            falsePositiveReason |->
                IF row.false_positive_reason \in { Null, "" }
                THEN Undefined ELSE row.false_positive_reason ] ]

get_findingsUnordered(store, reviewId, includeFiltered) ==
    { [ i \in 1..Len(rows) |-> mapFindingFromDb(rows[i]) ] :
        rows \in Orderings(GetFindingsRows(store, reviewId, includeFiltered)) }

\* get_findings: the lists the tool can return, the selected rows in an order
\* that the ORDER BY allows (rows of equal rank in any order)
get_findings(store, reviewId, includeFiltered) ==
    { [ i \in 1..Len(rows) |-> mapFindingFromDb(rows[i]) ] :
        rows \in { seq \in Orderings(GetFindingsRows(store, reviewId, includeFiltered)) :
                     \A i \in 1..(Len(seq) - 1) :
                         SeverityRank(seq[i].severity)
                             <= SeverityRank(seq[i + 1].severity) } }

\* C23: get_findings returns the findings of the requested review in
\* non-decreasing severity rank (critical 1, high 2, medium 3, low 4, other 5):
\* with includeFiltered false each reachable finding row of the review once and
\* nothing else, with includeFiltered true each of its finding rows once.
C23_GetFindingsOrdered ==
    \A reviewId \in GwReviewIds : \A includeFiltered \in BOOLEAN :
        LET ofReview == { row \in Gateway.findings : row.review_id = reviewId }
            expected == IF includeFiltered THEN ofReview
                        ELSE { row \in ofReview : row.is_reachable = 1 }
            returned == get_findings(Gateway, reviewId, includeFiltered)
        IN  /\ returned # {}
            /\ \A findings \in returned :
                   /\ Len(findings) = Cardinality(expected)
                   /\ { f.id : f \in Range(findings) } = { row.id : row \in expected }
                   /\ ~includeFiltered => \A f \in Range(findings) : f.isReachable
                   /\ \A i, j \in 1..Len(findings) :
                          i < j => SeverityRank(findings[i].severity)
                                       <= SeverityRank(findings[j].severity)

\* a review holds findings of ranks 1 and 5, one of them reachable, and another
\* review holds findings too
C23_Witness ==
    \E a, b \in GwReviewIds :
        /\ a # b
        /\ { SeverityRank(row.severity) : row \in GetFindingsRows(Gateway, a, TRUE) }
               = { 1, 5 }
        /\ Cardinality(GetFindingsRows(Gateway, a, FALSE)) = 1
        /\ GetFindingsRows(Gateway, b, TRUE) # {}

\* what a store holds of one review: its row, its findings and its remediations
OwnedBy(store, reviewId) ==
    [ reviews |-> ReviewRows(store, reviewId),
      findings |-> { row \in store.findings : row.review_id = reviewId },
      remediations |-> { row \in store.remediations : row.review_id = reviewId } ]

\* C24: reviews are independent: store-findings, store-remediations,
\* update-status and approve_findings requested for review a leave every
\* finding, remediation, statistic and status of another review b as they were,
\* whatever finding and remediation ids the requests carry, equal ids included.
C24_ReviewsIndependent ==
    \A a, b \in GwReviewIds :
        a # b =>
            /\ \A findings \in GwFindingLists : \A synthesis \in GwSyntheses(findings) :
                   OwnedBy(StoreFindingsHandler(Gateway, a, findings, synthesis), b)
                       = OwnedBy(Gateway, b)
            /\ \A remediations \in GwRemediationLists :
                   OwnedBy(StoreRemediationsHandler(Gateway, a, remediations), b)
                       = OwnedBy(Gateway, b)
            /\ \A args \in GwStatusArgs :
                   OwnedBy(UpdateStatusHandler(Gateway, a, args[1], args[2]), b)
                       = OwnedBy(Gateway, b)
            /\ \A ids \in ApprovalInputs :
                   OwnedBy([ Gateway EXCEPT !.findings = MarkApproved(@, a, ids) ], b)
                       = OwnedBy(Gateway, b)

\* C25: every update-status, store-findings and store-remediations request of a
\* review's run is applied in the object in which submit_review created the
\* review's row: each status write finds the row there, check_status on that
\* object reports the status written last, and get_findings and get_remediation
\* there return what the run stored.
C25_CallbacksReachTheReview ==
    \A r \in ReviewIdPool : \A u \in Users :
        LET written == StatusesOf(statusLog, r)
            filtered == results[r]["reachability-filter"].value
        IN  /\ \A i \in 1..Len(statusLog) :
                   statusLog[i].reviewId = r =>
                       statusLog[i].do = AgentDoOf(u) /\ statusLog[i].rows = 1
            /\ written # <<>> => check_status(u, r).status = written[Len(written)]
            /\ completed[r]["store-findings"] = 1 =>
                   { row.id : row \in GetFindingsRows(db[AgentDoOf(u)], r, TRUE) }
                       = { f.id : f \in Range(filtered) }
            /\ completed[r]["store-remediations"] = 1 =>
                   { row.id : row \in get_remediation(u, r, Undefined) }
                       = { rem.id : rem \in Range(results[r]["remediation"].value) }

\* C26: whatever the interleaving of submit_review's two writes with the
\* update-status requests of the review's run, no step moves the status held by
\* a review row backwards in the order pending, triaging, analyzing, filtering,
\* awaiting_approval, remediating, completed.
C26_StatusNeverMovesBack ==
    [][ \A d \in DoNames : \A row \in db[d].reviews : \A row2 \in db'[d].reviews :
          row2.id = row.id => Rank(row2.status) >= Rank(row.status)
      ]_vars

\* submit_review wrote 'triaging' after the run had requested 'analyzing' and
\* 'filtering'
C26_Witness ==
    \E r \in ReviewIdPool : \E i, j \in 1..Len(statusLog) :
        /\ i < j
        /\ statusLog[i].reviewId = r /\ statusLog[i].status = "filtering"
        /\ statusLog[j].reviewId = r /\ statusLog[j].status = "triaging"
        /\ \E row \in PersistedReviews(r) : row.status = "triaging"

\* C27: when the event the wait received has approved = true but names no
\* finding of the run that is reachable (its ids are unknown, or of unreachable
\* findings, or there is none), zero findings are approved: 'remediating' is
\* never written, the remediation stage is not invoked and nothing follows the
\* wait but the 'completed' update.
C27_NothingApprovedCompletes ==
    \A r \in ReviewIdPool :
        (/\ results[r]["approval"].done
         /\ Decision(r).approved
         /\ ApprovedFindings(results[r]["reachability-filter"].value, Decision(r)) = <<>>) =>
            /\ ~Includes(StatusesOf(statusLog, r), "remediating")
            /\ ~Started(r, "update-status-remediating")
            /\ ~Started(r, "remediation")
            /\ ~Started(r, "store-remediations")

\* the points of the orchestrator's state machine
StatusStagePairs ==
    { << "pending", Null >>, << "triaging", "triage" >>,
      << "analyzing", "dependency" >>, << "filtering", "reachability" >>,
      << "awaiting_approval", "approval" >>, << "remediating", "remediation" >>,
      << "completed", Null >> }

\* C28: the status and current stage that a review row holds, and the status
\* and current stage of every write made for a review, are one of the pairs
\* (pending, null), (triaging, triage), (analyzing, dependency), (filtering,
\* reachability), (awaiting_approval, approval), (remediating, remediation),
\* (completed, null): the stage is null whenever the status is completed.
C28_StatusStageJoint ==
    /\ \A d \in DoNames : \A row \in db[d].reviews :
           << row.status, row.current_stage >> \in StatusStagePairs
    /\ \A i \in 1..Len(statusLog) :
           << statusLog[i].status, statusLog[i].currentStage >> \in StatusStagePairs

\* a run wrote 'remediating' and then 'completed', and the review's row holds
\* (triaging, triage)
C28_Witness ==
    \E r \in ReviewIdPool :
        /\ \E i, j \in 1..Len(statusLog) :
               /\ i < j
               /\ statusLog[i].reviewId = r /\ statusLog[i].status = "remediating"
               /\ statusLog[j].reviewId = r /\ statusLog[j].status = "completed"
        /\ \E row \in PersistedReviews(r) :
               row.status = "triaging" /\ row.current_stage = "triage"

C31_RemediationsOfApprovedFindings ==
    \A r \in ReviewIdPool : \A rem \in PersistedRemediations(r) :
        /\ Includes(Decision(r).findingIds, rem.finding_id)
        /\ \E f \in FindingsOf(r) :
               /\ f.id = rem.finding_id
               /\ f.is_reachable = 1
               /\ f.approved = 1

\* C32: at most one approval decision takes effect per review, however many
\* approve_findings calls are made and whenever: the wait of the run receives
\* one event, whose decision then stays; the remediation stage and
\* store-remediations complete at most once; the stored remediations are those
\* the one remediation stage returned for that decision, and they do not change
\* once stored, also when a restart makes the store request go out again.
C32_OneDecisionTakesEffect ==
    /\ [](\A r \in ReviewIdPool :
             /\ completed[r]["approval"] <= 1
             /\ completed[r]["remediation"] <= 1
             /\ completed[r]["store-remediations"] <= 1
             /\ \A rem \in PersistedRemediations(r) :
                    /\ completed[r]["remediation"] = 1
                    /\ \E out \in Range(results[r]["remediation"].value) :
                           out.id = rem.id /\ out.findingId = rem.finding_id
                    /\ Includes(Decision(r).findingIds, rem.finding_id))
    /\ [][ \A r \in ReviewIdPool :
              /\ results[r]["approval"].done =>
                     results'[r]["approval"] = results[r]["approval"]
              /\ results[r]["remediation"].done =>
                     results'[r]["remediation"] = results[r]["remediation"]
              /\ (\/ PersistedRemediations(r) # {}
                  \/ completed[r]["store-remediations"] = 1) =>
                     \A d \in DoNames : db'[d].remediations = db[d].remediations
      ]_vars

\* the run received one approval and stored its remediations, its store request
\* having gone out again after a restart, and a second approve_findings call
\* left its event behind
C32_Witness ==
    \E r \in ReviewIdPool :
        /\ completed[r]["approval"] = 1
        /\ completed[r]["store-remediations"] = 1
        /\ replays[r] > 0
        /\ PersistedRemediations(r) # {}
        /\ events[r] # <<>> /\ Head(events[r]).approved

\* C33: approve_findings for a review id without a review row answers 'Review
\* not found', leaves every finding row as it is and sends no event; for a
\* review that has a row it changes only rows whose id is in findingIds and
\* whose review_id is the review, setting approved, and marks each of those.
\* So a row is only ever approved for a review that the store holds.
C33_ApproveFindingsScoped ==
    /\ \A reviewId \in GwReviewIds : \A findingIds \in ApprovalInputs :
           LET call == approve_findings(Gateway, reviewId, findingIds)
               Named(row) == row.review_id = reviewId /\ Includes(findingIds, row.id)
           IN  IF ReviewRows(Gateway, reviewId) = {}
               THEN /\ call.response = NotFound
                    /\ call.findings = Gateway.findings
                    /\ ~call.sendEvent
               ELSE /\ call.response # NotFound
                    /\ { row \in call.findings : ~Named(row) }
                           = { row \in Gateway.findings : ~Named(row) }
                    /\ { row \in call.findings : Named(row) }
                           = { [ row EXCEPT !.approved = 1, !.approved_at = "now" ]
                               : row \in { x \in Gateway.findings : Named(x) } }
    /\ \A row \in Gateway.findings :
           row.approved = 1 => ReviewRows(Gateway, row.review_id) # {}

\* one review's finding is approved while a review id without a row has
\* findings of its own, one of them with an id the approval named
C33_Witness ==
    \E a \in ReviewIdPool : \E b \in GwReviewIds \ ReviewIdPool :
        /\ ReviewRows(Gateway, b) = {}
        /\ \E row \in Gateway.findings : row.review_id = a /\ row.approved = 1
        /\ \E row \in Gateway.findings :
               row.review_id = b /\ row.id \in { "f1", "f3" } /\ row.approved = 0

\* the 'completed' status write of the run of review r was made
CompletedWritten(r) == Includes(StatusesOf(statusLog, r), "completed")

\* C34: 'completed' is terminal: no step changes the status or the current stage
\* of a review row that holds 'completed'; and once the 'completed' write of a
\* review's run was made, no step of an update-status callback of the run, of
\* approve_findings or of a store operation changes the status or the current
\* stage of a row of the review, and a status the run writes again is
\* 'completed' with no stage.  (submit_review's own 'pending' and 'triaging'
\* writes in the agent's object are none of these operations.)
C34_CompletedTerminal ==
    [][ /\ \A d \in DoNames : \A row \in db[d].reviews :
              row.status = "completed" =>
                  \E row2 \in db'[d].reviews :
                      /\ row2.id = row.id
                      /\ row2.status = row.status
                      /\ row2.current_stage = row.current_stage
        /\ \A r \in ReviewIdPool :
              CompletedWritten(r) =>
                  LET grew == Len(statusLog') > Len(statusLog)
                      w == statusLog'[Len(statusLog')]
                      submit == /\ grew
                                /\ w.do = AgentDoName
                                /\ w.status \in { "pending", "triaging" }
                  IN  ~submit =>
                          /\ \A d \in DoNames : \A row \in ReviewRows(db[d], r) :
                                 \E row2 \in ReviewRows(db'[d], r) :
                                     /\ row2.status = row.status
                                     /\ row2.current_stage = row.current_stage
                          /\ (grew /\ w.reviewId = r) =>
                                 w.status = "completed" /\ w.currentStage = Null
      ]_vars

\* the run's 'completed' write was made twice, the second time by the replayed
\* callback of its last step, and an approve_findings call is under way
C34_Witness ==
    \E r \in ReviewIdPool :
        /\ \E i, j \in 1..Len(statusLog) :
               /\ i < j
               /\ statusLog[i].reviewId = r /\ statusLog[i].status = "completed"
               /\ statusLog[j].reviewId = r /\ statusLog[j].status = "completed"
        /\ approving[r] # <<>>

\* C35: runInjectionStage makes no inference call and returns the empty list,
\* whatever the model would have answered, exactly when the triage result has
\* no injection-related risk area, no sink and no entry point; otherwise it
\* makes one inference call.  The empty list is the step's result: the step
\* completes at its first attempt, never throws and never fails the run.
C35_InjectionShortCircuit ==
    /\ \A triage \in TriageResults :
           LET none == /\ ~triage.injectionRisk
                       /\ triage.sinks = 0
                       /\ triage.entryPoints = 0
           IN  /\ InjectionInferenceCalls(triage) = (IF none THEN 0 ELSE 1)
               /\ InjectionShortCircuit(triage) <=> none
               /\ none => \A response \in InjectionResponses :
                              runInjectionStage(triage, response) = Returned(<<>>)
               /\ ~none => \E response \in InjectionResponses :
                              runInjectionStage(triage, response) # Returned(<<>>)
    /\ \A r \in ReviewIdPool :
           (/\ results[r]["triage"].done
            /\ InjectionInferenceCalls(results[r]["triage"].value) = 0) =>
               /\ attempts[r]["injection-analysis"] = 0
               /\ parseThrows[r]["injection-analysis"] = 0
               /\ wfError[r] # "injection-analysis"
               /\ completed[r]["injection-analysis"] <= 1
               /\ results[r]["injection-analysis"].done =>
                      results[r]["injection-analysis"].value = <<>>

\* the injection step was recorded with the empty list for a triage result
\* without injection surface, and the run went on to the reachability filter
C35_Witness ==
    \E r \in ReviewIdPool :
        /\ results[r]["triage"].done
        /\ InjectionShortCircuit(results[r]["triage"].value)
        /\ completed[r]["injection-analysis"] = 1
        /\ results[r]["injection-analysis"].value = <<>>
        /\ results[r]["reachability-filter"].done

\* `${finding.title}:${finding.location_start_line}`
FindingKey(row) == row.title \o ":" \o ToString(row.location_start_line)

compare_reviewsCountingAll(store, reviewId1, reviewId2) ==
    LET findings1 == GetFindingsRows(store, reviewId1, TRUE)
        findings2 == GetFindingsRows(store, reviewId2, TRUE)
        findings1Set == { FindingKey(f) : f \in findings1 }
        findings2Set == { FindingKey(f) : f \in findings2 }
    IN  [ comparison |->
              [ review1 |-> [ id |-> reviewId1, findingsCount |-> Cardinality(findings1) ],
                review2 |-> [ id |-> reviewId2, findingsCount |-> Cardinality(findings2) ],
                delta |-> Cardinality(findings2) - Cardinality(findings1) ],
          newVulnerabilities |->
              { mapFindingFromDb(f) : f \in { g \in findings2 : FindingKey(g) \notin findings1Set } },
          fixedVulnerabilities |->
              { mapFindingFromDb(f) : f \in { g \in findings1 : FindingKey(g) \notin findings2Set } } ]

\* compare_reviews: the reachable rows of the two reviews, compared by key; the
\* lists are given as the sets of their elements
compare_reviews(store, reviewId1, reviewId2) ==
    LET findings1 == GetFindingsRows(store, reviewId1, FALSE)
        findings2 == GetFindingsRows(store, reviewId2, FALSE)
        findings1Set == { FindingKey(f) : f \in findings1 }
        findings2Set == { FindingKey(f) : f \in findings2 }
    IN  [ comparison |->
              [ review1 |-> [ id |-> reviewId1, findingsCount |-> Cardinality(findings1) ],
                review2 |-> [ id |-> reviewId2, findingsCount |-> Cardinality(findings2) ],
                delta |-> Cardinality(findings2) - Cardinality(findings1) ],
          newVulnerabilities |->
              { mapFindingFromDb(f) : f \in { g \in findings2 : FindingKey(g) \notin findings1Set } },
          fixedVulnerabilities |->
              { mapFindingFromDb(f) : f \in { g \in findings1 : FindingKey(g) \notin findings2Set } } ]

\* C36: compare_reviews is a symmetric difference of the reviews' reachable
\* findings by (title, start line): the new vulnerabilities of (A, B) are the
\* reachable findings of B whose title and start line no reachable finding of A
\* has, and they are the fixed vulnerabilities of (B, A); a review compared
\* with itself has neither; delta is the number of reachable findings of the
\* second review minus that of the first.
C36_CompareSymmetric ==
    \A a \in GwReviewIds : \A b \in GwReviewIds :
        LET Reachable(r) ==
                { row \in Gateway.findings : row.review_id = r /\ row.is_reachable = 1 }
            Pairs(r) ==
                { << row.title, row.location_start_line >> : row \in Reachable(r) }
            ab == compare_reviews(Gateway, a, b)
            ba == compare_reviews(Gateway, b, a)
        IN  /\ ab.newVulnerabilities = ba.fixedVulnerabilities
            /\ ab.fixedVulnerabilities = ba.newVulnerabilities
            /\ ab.newVulnerabilities =
                   { mapFindingFromDb(row) :
                       row \in { x \in Reachable(b) :
                                   << x.title, x.location_start_line >> \notin Pairs(a) } }
            /\ a = b => ab.newVulnerabilities = {} /\ ab.fixedVulnerabilities = {}
            /\ ab.comparison.delta
                   = Cardinality(Reachable(b)) - Cardinality(Reachable(a))
            /\ ab.comparison.delta = 0 - ba.comparison.delta

\* two reviews with reachable findings: one pair with a new and a fixed
\* vulnerability, the later review also holding a finding left out as unreachable
C36_Witness ==
    \E a \in GwReviewIds : \E b \in GwReviewIds :
        LET ab == compare_reviews(Gateway, a, b)
        IN  /\ a # b
            /\ ab.newVulnerabilities # {}
            /\ ab.fixedVulnerabilities # {}
            /\ \E row \in Gateway.findings : row.review_id = b /\ row.is_reachable = 0

====
